---- MODULE Spec2Model ----
(***************************************************************************)
(* A model of the kernel core in src/sample.cpp: the page allocator, the  *)
(* PCB heap and round-robin scheduler, the inode table, the syscall       *)
(* dispatcher and the interrupt router.                                   *)
(*                                                                         *)
(* Pointers are byte addresses (integers); NULL is address 0.  A PCB      *)
(* lives in the page it was allocated in, so PCB memory is a heap indexed *)
(* by page base address and the ready queue is the linked list threaded   *)
(* through the PCBs' next fields, exactly as in the source.               *)
(***************************************************************************)
EXTENDS Integers, Sequences, FiniteSets, TLC

\* ------------------------------------------------------------ constants

\* #define PAGE_SIZE 4096
PAGE_SIZE == 4096

\* #define NUM_PAGES 1024, scaled down so that exhaustion is reachable.
NUM_PAGES == 6

\* #define MAX_FILES 1024, scaled down in the same way.
MAX_FILES == 3

\* The most pids generate_pid() hands out in a run of the model.
MaxPid == 3

\* The most schedule() calls counted after the latest successful creation.
MaxTicks == 6

\* The largest value get_current_time() returns in the model.
MaxTime == 0

\* The number of consumers that call allocate_page / free_page directly.
NumConsumers == 2

\* The most allocate_page calls a run of the allocator harness makes
\* beyond NUM_PAGES.
ExtraAllocs == 3

\* The most free_page calls a run of the allocator harness makes.
MaxFrees == 1

NULL == 0

\* The syscall and interrupt numbers are used but never defined in the source.
SYS_CREATE_PROCESS == 1
SYS_ALLOCATE_PAGE == 2
SYS_CREATE_FILE == 3
TIMER_INTERRUPT == 32
SYSCALL_INTERRUPT == 128

\* The permissions handle_syscall passes to create_file: 0644 octal.
PERM_0644 == 420

Pages == 0 .. (NUM_PAGES - 1)
PageAddrs == { i * PAGE_SIZE : i \in Pages }
Files == 0 .. (MAX_FILES - 1)
Consumers == 1 .. NumConsumers

\* Entry points handed to create_process (the void* argument).
EntryPoints == { 100, 200 }

\* Addresses handed to free_page: every page base, one unaligned address
\* inside every page, and two addresses beyond the pool.
FreeAddrs == PageAddrs \cup { a + 8 : a \in PageAddrs }
                \cup { NUM_PAGES * PAGE_SIZE, NUM_PAGES * PAGE_SIZE + 8 }

\* The syscall numbers the dispatcher knows, and undefined ones handed to it.
DefinedSyscalls == { SYS_CREATE_PROCESS, SYS_ALLOCATE_PAGE, SYS_CREATE_FILE }
UnknownSyscalls == { 4, -1 }

\* Interrupt numbers handed to interrupt_handler.
InterruptNumbers == { TIMER_INTERRUPT, SYSCALL_INTERRUPT, 0 }

\* ------------------------------------------------------------ state

VARIABLES
    page_table,       \* [Pages -> [page_number, is_free]]
    mem,              \* PCB heap: [PageAddrs -> PCB]
    current_process,  \* PCB* (address, NULL when none)
    ready_queue,      \* PCB* head of the linked ready list
    inode_table,      \* [Files -> Inode]
    pid_counter,      \* the counter behind generate_pid()
    hung,             \* TRUE once a list walk never terminates
    call,             \* the latest call: [op, arg]
    ret,              \* the value the latest call returned
    created,          \* [pcb, pid] of every successful create_process, in order
    ticks,            \* schedule() calls since the latest successful creation
    early,            \* a process was created after an earlier one was ticked
    holders,          \* shadow: [Pages -> SUBSET Consumers] holding the page
    allocCalls,       \* shadow: allocate_page calls made by consumers
    allocOks,         \* shadow: those that returned a non-NULL address
    freedAt,          \* shadow: [at, page] of each free_page call by a consumer:
                      \* the allocCalls made before it and the page index it names
    files,            \* the values create_file returned, in call order
    sched_pc,         \* "idle", or "line89": a schedule() stands before line 89
    nested            \* a schedule() has run inside a suspended schedule()

sched_hist == << created, ticks, early >>
shadow == << holders, allocCalls, allocOks, freedAt >>
nest == << sched_pc, nested >>
vars == << page_table, mem, current_process, ready_queue, inode_table,
           pid_counter, hung, call, ret, created, ticks, early,
           holders, allocCalls, allocOks, freedAt, files, sched_pc, nested >>

\* ------------------------------------------------------------ page allocator

\* A scan that keeps going and ends on the highest free index.
FirstFree_LastFit(pt) ==
    IF \E i \in Pages : pt[i].is_free = 1
    THEN CHOOSE i \in Pages :
            pt[i].is_free = 1 /\ \A j \in Pages : j > i => pt[j].is_free = 0
    ELSE -1

\* The loop of allocate_page: the lowest index whose entry is free, or -1.
FirstFree(pt) ==
    IF \E i \in Pages : pt[i].is_free = 1
    THEN CHOOSE i \in Pages :
            pt[i].is_free = 1 /\ \A j \in Pages : j < i => pt[j].is_free = 0
    ELSE -1

\* A conversion to uint32_t, or of a pointer to int.  Every address, product
\* and pid of the model lies in 0 .. 2^31 - 1 (where TLC's integers end), and
\* on that range both conversions keep the value.
Word32(v) == v

\* allocate_page's return value: page_number * PAGE_SIZE of the page found, as
\* a 32-bit product converted to a pointer, or NULL.
AllocRet(pt) ==
    IF FirstFree(pt) = -1 THEN NULL
    ELSE Word32(pt[FirstFree(pt)].page_number * PAGE_SIZE)

\* allocate_page's effect on the page table.
AllocTable(pt) ==
    IF FirstFree(pt) = -1 THEN pt
    ELSE [pt EXCEPT ![FirstFree(pt)].is_free = 0]

\* An index computation that rounds an unaligned address up to the next page.
PageIndex_RoundUp(address) == (Word32(address) + PAGE_SIZE - 1) \div PAGE_SIZE

\* free_page's index computation: (uint32_t)address / PAGE_SIZE.
PageIndex(address) == Word32(address) \div PAGE_SIZE

\* free_page's effect on the page table.
FreeTable(pt, address) ==
    IF PageIndex(address) < NUM_PAGES
    THEN [pt EXCEPT ![PageIndex(address)].is_free = 1]
    ELSE pt

\* kernel_init's loop.
InitTable == [i \in Pages |-> [page_number |-> i, is_free |-> 1]]

FreePages(pt) == { i \in Pages : pt[i].is_free = 1 }

\* ------------------------------------------------------------ PCB heap

\* A PCB whose fields were never written (no operation reads one).
ZeroPCB == [pid |-> 0, state |-> "READY", next |-> NULL,
            stack_pointer |-> NULL, program_counter |-> NULL]

\* "temp = head; while (temp->next) temp = temp->next;": the node the walk
\* stops at, or -1 when the walk never stops (the list is cyclic).  A list
\* without a repetition has at most NUM_PAGES nodes.
RECURSIVE LastNode(_, _, _)
LastNode(m, p, fuel) ==
    IF m[p].next = NULL THEN p
    ELSE IF fuel = 0 THEN -1
    ELSE LastNode(m, m[p].next, fuel - 1)

\* The PCBs linked from p, in order (cut after fuel nodes).
RECURSIVE ListFrom(_, _, _)
ListFrom(m, p, fuel) ==
    IF p = NULL \/ fuel = 0 THEN << >>
    ELSE << p >> \o ListFrom(m, m[p].next, fuel - 1)

\* The ready queue as a sequence of PCB addresses.
ReadyList == ListFrom(mem, ready_queue, NUM_PAGES + 1)

\* generate_pid(): not defined in the source; a counter that starts at 1 and
\* grows by one per call.
generate_pid(counter) == Word32(counter + 1)

\* ------------------------------------------------------------ create_process

\* A create_process that never stores the pid it generated.
NewPCB_NoPid(pt1, counter, entry_point) ==
    [pid |-> 0, state |-> "READY", next |-> NULL,
     stack_pointer |-> AllocRet(pt1) + PAGE_SIZE,
     program_counter |-> entry_point]

\* The PCB create_process writes, given the page table left by the first
\* allocation: the stack pointer is the second allocation's result plus
\* PAGE_SIZE, whether or not that allocation succeeded.
NewPCB(pt1, counter, entry_point) ==
    [pid |-> generate_pid(counter), state |-> "READY", next |-> NULL,
     stack_pointer |-> AllocRet(pt1) + PAGE_SIZE,
     program_counter |-> entry_point]

\* "(int)" applied to a pointer.
AsInt(v) == Word32(v)

\* What a caller of create_process sees: the PCB* itself, or, in
\* handle_syscall, the PCB* cast to int.
Returned(v, cast_to_int) == IF cast_to_int THEN AsInt(v) ELSE v

\* A create_process that links the new PCB in at the head of the queue.
CreateProcessBody_Push(entry_point, cast_to_int) ==
    LET np  == AllocRet(page_table)
        pt1 == AllocTable(page_table)
    IN  IF np = NULL
        THEN /\ page_table' = pt1
             /\ ret' = Returned(NULL, cast_to_int)
             /\ UNCHANGED << mem, ready_queue, pid_counter, hung, sched_hist >>
        ELSE LET m1 == [mem EXCEPT ![np] = NewPCB(pt1, pid_counter, entry_point)]
             IN  /\ pid_counter < MaxPid
                 /\ page_table' = AllocTable(pt1)
                 /\ pid_counter' = generate_pid(pid_counter)
                 /\ ready_queue' = np
                 /\ mem' = [m1 EXCEPT ![np].next = ready_queue]
                 /\ hung' = FALSE
                 /\ ret' = Returned(np, cast_to_int)
                 /\ created' = Append(created, [pcb |-> np, pid |-> m1[np].pid])
                 /\ early' = (early \/ (ticks > 0 /\ created # << >>))
                 /\ ticks' = 0

\* create_process without the bookkeeping of who called it; cast_to_int says
\* whether the caller casts the PCB* it gets back to int.
CreateProcessBody(entry_point, cast_to_int) ==
    LET np  == AllocRet(page_table)
        pt1 == AllocTable(page_table)
    IN  IF np = NULL
        THEN \* "if (!new_process) return NULL;"
             /\ page_table' = pt1
             /\ ret' = Returned(NULL, cast_to_int)
             /\ UNCHANGED << mem, ready_queue, pid_counter, hung, sched_hist >>
        ELSE LET m1   == [mem EXCEPT ![np] = NewPCB(pt1, pid_counter, entry_point)]
                 last == LastNode(m1, ready_queue, NUM_PAGES)
             IN  /\ pid_counter < MaxPid
                 /\ page_table' = AllocTable(pt1)
                 /\ pid_counter' = generate_pid(pid_counter)
                 /\ IF ready_queue = NULL
                    THEN /\ ready_queue' = np
                         /\ mem' = m1
                         /\ hung' = FALSE
                    ELSE IF last = -1
                    THEN \* the tail walk never ends
                         /\ mem' = m1
                         /\ hung' = TRUE
                         /\ UNCHANGED ready_queue
                    ELSE /\ mem' = [m1 EXCEPT ![last].next = np]
                         /\ hung' = FALSE
                         /\ UNCHANGED ready_queue
                 /\ IF hung'
                    THEN UNCHANGED << ret, sched_hist >>
                    ELSE /\ ret' = Returned(np, cast_to_int)
                         /\ created' = Append(created, [pcb |-> np, pid |-> m1[np].pid])
                         /\ early' = (early \/ (ticks > 0 /\ created # << >>))
                         /\ ticks' = 0

create_process(entry_point) ==
    /\ ~hung
    /\ UNCHANGED nest
    /\ CreateProcessBody(entry_point, FALSE)
    /\ call' = [op |-> "create_process", arg |-> entry_point]
    /\ UNCHANGED << current_process, inode_table, shadow, files >>

\* ------------------------------------------------------------ schedule

\* A schedule() that forgets to put the preempted process back on the queue.
ScheduleBody_NoRequeue ==
    IF ready_queue = NULL
    THEN UNCHANGED << mem, current_process, ready_queue, hung >>
    ELSE LET demote == current_process # NULL
                         /\ mem[current_process].state = "RUNNING"
             m1   == IF demote
                     THEN [mem EXCEPT ![current_process].state = "READY"]
                     ELSE mem
         IN  /\ current_process' = ready_queue
             /\ ready_queue' = m1[ready_queue].next
             /\ mem' = [m1 EXCEPT ![ready_queue].next = NULL,
                                  ![ready_queue].state = "RUNNING"]
             /\ hung' = FALSE

\* A schedule() that demotes the current process before it looks at the queue.
ScheduleBody_DemoteFirst ==
    LET demote == current_process # NULL
                    /\ mem[current_process].state = "RUNNING"
        m1   == IF demote
                THEN [mem EXCEPT ![current_process].state = "READY"]
                ELSE mem
        last == LastNode(m1, ready_queue, NUM_PAGES)
        m2   == IF demote
                THEN [m1 EXCEPT ![last].next = current_process]
                ELSE m1
    IN  IF ready_queue = NULL
        THEN /\ mem' = m1
             /\ UNCHANGED << current_process, ready_queue, hung >>
        ELSE /\ current_process' = ready_queue
             /\ ready_queue' = m2[ready_queue].next
             /\ mem' = [m2 EXCEPT ![ready_queue].next = NULL,
                                  ![ready_queue].state = "RUNNING"]
             /\ hung' = FALSE

\* schedule() without the bookkeeping of who called it.
ScheduleBody ==
    IF ready_queue = NULL
    THEN \* "if (!ready_queue) return;"
         UNCHANGED << mem, current_process, ready_queue, hung >>
    ELSE LET demote == current_process # NULL
                         /\ mem[current_process].state = "RUNNING"
             m1   == IF demote
                     THEN [mem EXCEPT ![current_process].state = "READY"]
                     ELSE mem
             last == LastNode(m1, ready_queue, NUM_PAGES)
             m2   == IF demote
                     THEN [m1 EXCEPT ![last].next = current_process]
                     ELSE m1
         IN  IF demote /\ last = -1
             THEN \* the tail walk never ends
                  /\ mem' = m1
                  /\ hung' = TRUE
                  /\ UNCHANGED << current_process, ready_queue >>
             ELSE /\ current_process' = ready_queue
                  /\ ready_queue' = m2[ready_queue].next
                  /\ mem' = [m2 EXCEPT ![ready_queue].next = NULL,
                                       ![ready_queue].state = "RUNNING"]
                  /\ hung' = FALSE

schedule ==
    /\ ~hung
    /\ UNCHANGED nest
    /\ ticks < MaxTicks
    /\ ScheduleBody
    /\ ticks' = ticks + 1
    /\ call' = [op |-> "schedule", arg |-> 0]
    /\ ret' = 0
    /\ UNCHANGED << page_table, inode_table, pid_counter, created, early, shadow, files >>

\* schedule() called by a timer that never stops: ticks counts the calls up
\* to MaxTicks and stays there.
tick ==
    /\ ~hung
    /\ UNCHANGED nest
    /\ ScheduleBody
    /\ ticks' = IF ticks < MaxTicks THEN ticks + 1 ELSE ticks
    /\ call' = [op |-> "schedule", arg |-> 0]
    /\ ret' = 0
    /\ UNCHANGED << page_table, inode_table, pid_counter, created, early, shadow, files >>

\* ------------------------------------------------------------ a nested tick

\* Lines 78-87 of a schedule() that finds a RUNNING current process and a
\* non-empty queue: the process is demoted and linked in behind the tail.
ScheduleRequeue ==
    LET m1   == [mem EXCEPT ![current_process].state = "READY"]
        last == LastNode(m1, ready_queue, NUM_PAGES)
    IN  /\ IF last = -1
           THEN mem' = m1 /\ hung' = TRUE
           ELSE mem' = [m1 EXCEPT ![last].next = current_process] /\ hung' = FALSE
        /\ UNCHANGED << current_process, ready_queue >>

\* Lines 89-92 of schedule(): the head of the queue becomes the current process.
SchedulePop ==
    /\ current_process' = ready_queue
    /\ ready_queue' = mem[ready_queue].next
    /\ mem' = [mem EXCEPT ![ready_queue].next = NULL,
                          ![ready_queue].state = "RUNNING"]
    /\ UNCHANGED hung

\* A schedule() that demotes and requeues the current process and is then
\* interrupted before line 89.
ScheduleSuspend ==
    /\ ~hung
    /\ sched_pc = "idle"
    /\ ticks < MaxTicks
    /\ ready_queue # NULL
    /\ current_process # NULL
    /\ mem[current_process].state = "RUNNING"
    /\ ScheduleRequeue
    /\ sched_pc' = "line89"
    /\ call' = [op |-> "schedule", arg |-> 0]
    /\ UNCHANGED << page_table, inode_table, pid_counter, ret, sched_hist,
                    shadow, files, nested >>

\* A timer tick taken while a schedule() is suspended: a whole schedule().
NestedSchedule ==
    /\ ~hung
    /\ sched_pc = "line89"
    /\ ticks < MaxTicks
    /\ ScheduleBody
    /\ ticks' = ticks + 1
    /\ nested' = TRUE
    /\ call' = [op |-> "schedule", arg |-> 1]
    /\ ret' = 0
    /\ UNCHANGED << page_table, inode_table, pid_counter, created, early,
                    shadow, files, sched_pc >>

\* The suspended schedule() runs on from line 89 and returns.
ScheduleResume ==
    /\ ~hung
    /\ sched_pc = "line89"
    /\ SchedulePop
    /\ sched_pc' = "idle"
    /\ ticks' = ticks + 1
    /\ call' = [op |-> "schedule", arg |-> 0]
    /\ ret' = 0
    /\ UNCHANGED << page_table, inode_table, pid_counter, created, early,
                    shadow, files, nested >>

\* ------------------------------------------------------------ allocate_page, free_page

allocate_page ==
    /\ ~hung
    /\ UNCHANGED nest
    /\ page_table' = AllocTable(page_table)
    /\ ret' = AllocRet(page_table)
    /\ call' = [op |-> "allocate_page", arg |-> 0]
    /\ UNCHANGED << mem, current_process, ready_queue, inode_table,
                    pid_counter, hung, sched_hist, shadow, files >>

free_page(address) ==
    /\ ~hung
    /\ UNCHANGED nest
    /\ page_table' = FreeTable(page_table, address)
    /\ ret' = 0
    /\ call' = [op |-> "free_page", arg |-> address]
    /\ UNCHANGED << mem, current_process, ready_queue, inode_table,
                    pid_counter, hung, sched_hist, shadow, files >>

\* A kernel_init() that also empties the scheduler's lists.
kernel_init_ResetsScheduler ==
    /\ ~hung
    /\ UNCHANGED nest
    /\ page_table' = InitTable
    /\ ready_queue' = NULL
    /\ current_process' = NULL
    /\ ret' = 0
    /\ call' = [op |-> "kernel_init", arg |-> 0]
    /\ UNCHANGED << mem, inode_table, pid_counter, hung, sched_hist, shadow, files >>

\* kernel_init(), called again on a running kernel.
kernel_init ==
    /\ ~hung
    /\ UNCHANGED nest
    /\ page_table' = InitTable
    /\ ret' = 0
    /\ call' = [op |-> "kernel_init", arg |-> 0]
    /\ UNCHANGED << mem, current_process, ready_queue, inode_table,
                    pid_counter, hung, sched_hist, shadow, files >>

\* A consumer's bookkeeping of an allocate_page result: it holds the page
\* whose base address it got back, and nothing when it got NULL back.
HoldersAfterAlloc(h, c, address) ==
    IF address = NULL THEN h
    ELSE [h EXCEPT ![PageIndex(address)] = @ \cup {c}]

\* A consumer's bookkeeping of its own free_page call: it gives up the page
\* if it held it; what other consumers hold is not its to give up.
HoldersAfterFree(h, c, address) ==
    IF PageIndex(address) < NUM_PAGES
    THEN [h EXCEPT ![PageIndex(address)] = @ \ {c}]
    ELSE h

\* Consumer c calls allocate_page().
ConsumerAllocate(c) ==
    /\ allocCalls < NUM_PAGES + ExtraAllocs
    /\ UNCHANGED nest
    /\ page_table' = AllocTable(page_table)
    /\ ret' = AllocRet(page_table)
    /\ call' = [op |-> "allocate_page", arg |-> 0]
    /\ holders' = HoldersAfterAlloc(holders, c, AllocRet(page_table))
    /\ allocCalls' = allocCalls + 1
    /\ allocOks' = IF AllocRet(page_table) # NULL THEN allocOks + 1 ELSE allocOks
    /\ UNCHANGED << mem, current_process, ready_queue, inode_table,
                    pid_counter, hung, sched_hist, freedAt, files >>

\* Consumer c calls free_page(address).
ConsumerFree(c, address) ==
    /\ Len(freedAt) < MaxFrees
    /\ UNCHANGED nest
    /\ page_table' = FreeTable(page_table, address)
    /\ ret' = 0
    /\ call' = [op |-> "free_page", arg |-> address]
    /\ holders' = HoldersAfterFree(holders, c, address)
    /\ freedAt' = Append(freedAt, [at |-> allocCalls, page |-> PageIndex(address)])
    /\ UNCHANGED << mem, current_process, ready_queue, inode_table,
                    pid_counter, hung, sched_hist, allocCalls, allocOks, files >>

\* ------------------------------------------------------------ create_file

ZeroInode == [inode_number |-> 0, file_size |-> 0, permissions |-> 0,
              timestamp |-> 0]

\* The scan of create_file: the lowest slot whose file_size is 0, or -1.
FirstFreeInode(it) ==
    IF \E i \in Files : it[i].file_size = 0
    THEN CHOOSE i \in Files :
            it[i].file_size = 0 /\ \A j \in Files : j < i => it[j].file_size # 0
    ELSE -1

\* create_file's return value.
CreateFileRet(it) == FirstFreeInode(it)

\* create_file's effect on the inode table; now is get_current_time().
CreateFileTable(it, permissions, now) ==
    IF FirstFreeInode(it) = -1 THEN it
    ELSE [it EXCEPT ![FirstFreeInode(it)] =
            [inode_number |-> FirstFreeInode(it), file_size |-> 0,
             permissions |-> permissions, timestamp |-> now]]

\* Permissions handed to create_file directly.
Permissions == { PERM_0644, 0 }

\* create_file without the bookkeeping of who called it.
CreateFileBody(permissions, now) ==
    /\ Len(files) <= MAX_FILES
    /\ inode_table' = CreateFileTable(inode_table, permissions, now)
    /\ ret' = CreateFileRet(inode_table)
    /\ files' = Append(files, CreateFileRet(inode_table))

create_file(permissions, now) ==
    /\ ~hung
    /\ UNCHANGED nest
    /\ CreateFileBody(permissions, now)
    /\ call' = [op |-> "create_file", arg |-> permissions]
    /\ UNCHANGED << page_table, mem, current_process, ready_queue,
                    pid_counter, hung, sched_hist, shadow >>

\* ------------------------------------------------------------ handle_syscall

\* A dispatcher whose switch has no default: an unknown number falls into the
\* SYS_ALLOCATE_PAGE case.
handle_syscall_NoDefault(syscall_number, args, now) ==
    /\ ~hung
    /\ UNCHANGED nest
    /\ call' = [op |-> "handle_syscall", arg |-> syscall_number]
    /\ IF syscall_number = SYS_CREATE_PROCESS
       THEN /\ CreateProcessBody(args, TRUE)
            /\ UNCHANGED << current_process, inode_table, shadow, files >>
       ELSE IF syscall_number = SYS_CREATE_FILE
       THEN /\ CreateFileBody(PERM_0644, now)
            /\ UNCHANGED << page_table, mem, current_process, ready_queue,
                            pid_counter, hung, sched_hist, shadow >>
       ELSE /\ page_table' = AllocTable(page_table)
            /\ ret' = AsInt(AllocRet(page_table))
            /\ UNCHANGED << mem, current_process, ready_queue, inode_table,
                            pid_counter, hung, sched_hist, shadow, files >>

\* A dispatcher whose SYS_CREATE_FILE case lacks its return and falls through
\* into an allocate_page call.
handle_syscall_FallThrough(syscall_number, args, now) ==
    /\ ~hung
    /\ UNCHANGED nest
    /\ call' = [op |-> "handle_syscall", arg |-> syscall_number]
    /\ IF syscall_number = SYS_CREATE_PROCESS
       THEN /\ CreateProcessBody(args, TRUE)
            /\ UNCHANGED << current_process, inode_table, shadow, files >>
       ELSE IF syscall_number = SYS_ALLOCATE_PAGE
       THEN /\ page_table' = AllocTable(page_table)
            /\ ret' = AsInt(AllocRet(page_table))
            /\ UNCHANGED << mem, current_process, ready_queue, inode_table,
                            pid_counter, hung, sched_hist, shadow, files >>
       ELSE IF syscall_number = SYS_CREATE_FILE
       THEN /\ Len(files) <= MAX_FILES
            /\ inode_table' = CreateFileTable(inode_table, PERM_0644, now)
            /\ files' = Append(files, CreateFileRet(inode_table))
            /\ page_table' = AllocTable(page_table)
            /\ ret' = AsInt(AllocRet(page_table))
            /\ UNCHANGED << mem, current_process, ready_queue,
                            pid_counter, hung, sched_hist, shadow >>
       ELSE /\ ret' = -1
            /\ UNCHANGED << page_table, mem, current_process, ready_queue,
                            inode_table, pid_counter, hung, sched_hist, shadow, files >>

handle_syscall(syscall_number, args, now) ==
    /\ ~hung
    /\ UNCHANGED nest
    /\ call' = [op |-> "handle_syscall", arg |-> syscall_number]
    /\ IF syscall_number = SYS_CREATE_PROCESS
       THEN /\ CreateProcessBody(args, TRUE)
            /\ UNCHANGED << current_process, inode_table, shadow, files >>
       ELSE IF syscall_number = SYS_ALLOCATE_PAGE
       THEN /\ page_table' = AllocTable(page_table)
            /\ ret' = AsInt(AllocRet(page_table))
            /\ UNCHANGED << mem, current_process, ready_queue, inode_table,
                            pid_counter, hung, sched_hist, shadow, files >>
       ELSE IF syscall_number = SYS_CREATE_FILE
       THEN /\ CreateFileBody(PERM_0644, now)
            /\ UNCHANGED << page_table, mem, current_process, ready_queue,
                            pid_counter, hung, sched_hist, shadow >>
       ELSE \* "default: return -1;"
            /\ ret' = -1
            /\ UNCHANGED << page_table, mem, current_process, ready_queue,
                            inode_table, pid_counter, hung, sched_hist, shadow, files >>

\* ------------------------------------------------------------ interrupt_handler

interrupt_handler(interrupt_number) ==
    /\ ~hung
    /\ UNCHANGED nest
    /\ call' = [op |-> "interrupt_handler", arg |-> interrupt_number]
    /\ ret' = 0
    /\ IF interrupt_number = TIMER_INTERRUPT
       THEN /\ ticks < MaxTicks
            /\ ScheduleBody
            /\ ticks' = ticks + 1
            /\ UNCHANGED << page_table, inode_table, pid_counter, created,
                            early, shadow, files >>
       ELSE \* SYSCALL_INTERRUPT and every other number: an empty case
            UNCHANGED << page_table, mem, current_process, ready_queue,
                         inode_table, pid_counter, hung, sched_hist, shadow, files >>

\* ------------------------------------------------------------ specifications

\* The state after the globals' static initialisation and kernel_init().
Init ==
    /\ page_table = InitTable
    /\ mem = [a \in PageAddrs |-> ZeroPCB]
    /\ current_process = NULL
    /\ ready_queue = NULL
    /\ inode_table = [i \in Files |-> ZeroInode]
    /\ pid_counter = 0
    /\ hung = FALSE
    /\ call = [op |-> "kernel_init", arg |-> 0]
    /\ ret = 0
    /\ created = << >>
    /\ ticks = 0
    /\ early = FALSE
    /\ holders = [i \in Pages |-> {}]
    /\ allocCalls = 0
    /\ allocOks = 0
    /\ freedAt = << >>
    /\ files = << >>
    /\ sched_pc = "idle"
    /\ nested = FALSE

\* The kernel driven through its two entry points: syscalls and interrupts.
\* (handle_syscall reads args only for SYS_CREATE_PROCESS, and the clock only
\* for SYS_CREATE_FILE.)
Next ==
    \/ \E e \in EntryPoints : handle_syscall(SYS_CREATE_PROCESS, e, 0)
    \/ handle_syscall(SYS_ALLOCATE_PAGE, NULL, 0)
    \/ \E t \in 0 .. MaxTime : handle_syscall(SYS_CREATE_FILE, NULL, t)
    \/ \E n \in UnknownSyscalls : handle_syscall(n, NULL, 0)
    \/ \E i \in InterruptNumbers : interrupt_handler(i)

Spec == Init /\ [][Next]_vars

\* create_process and schedule only, each atomic.
NextSched ==
    \/ \E e \in EntryPoints : create_process(e)
    \/ schedule

SpecSched == Init /\ [][NextSched]_vars

\* Consumers calling the page allocator directly.
NextMem ==
    \/ \E c \in Consumers : ConsumerAllocate(c)
    \/ \E c \in Consumers, a \in FreeAddrs : ConsumerFree(c, a)

SpecMem == Init /\ [][NextMem]_vars

\* Process creation and ticks interleaved with page allocations and a bounded
\* number of free_page calls on any page, live PCB pages included.
NextAll ==
    \/ \E e \in { 100 } : create_process(e)
    \/ schedule
    \/ allocate_page
    \/ \E c \in Consumers, a \in PageAddrs : ConsumerFree(c, a)

SpecAll == Init /\ [][NextAll]_vars

\* ------------------------------------------------------------ scheduler claims

\* How many places hold PCB p: its occurrences in the ready list plus one if
\* it is the current process.
Placements(p) ==
    Cardinality({ i \in 1 .. Len(ReadyList) : ReadyList[i] = p })
        + (IF current_process = p THEN 1 ELSE 0)

\* C1: with P1, P2, P3 created in that order before any of them was ticked,
\* the current process after the k-th schedule() that follows the creations is
\* the one at position ((k-1) mod 3) + 1, for every k >= 1.
C1_RoundRobinOrder ==
    (Len(created) = 3 /\ ~early /\ ticks >= 1)
        => current_process = created[((ticks - 1) % 3) + 1].pcb

\* Three processes, then five ticks: the second cycle has reached P2.
C1_Witness ==
    /\ Len(created) = 3
    /\ ~early
    /\ ticks = 5
    /\ current_process = created[2].pcb

\* C2: with exactly one process ever created, after every schedule() call
\* that follows its creation it is the current process, RUNNING, and the
\* ready queue is empty.
C2_SingleProcessStable ==
    (Len(created) = 1 /\ ticks >= 1)
        => /\ current_process = created[1].pcb
           /\ mem[created[1].pcb].state = "RUNNING"
           /\ ready_queue = NULL

\* One process, ticked three times.
C2_Witness ==
    /\ Len(created) = 1
    /\ ticks = 3
    /\ current_process = created[1].pcb
    /\ mem[created[1].pcb].state = "RUNNING"

\* C5: every created PCB is in exactly one of the ready queue and the
\* current-process slot: not in both, not in neither, not twice in the queue.
C5_PlacementInvariant ==
    \A i \in 1 .. Len(created) : Placements(created[i].pcb) = 1

\* Three processes, one current and two queued, after a preemption.
C5_Witness ==
    /\ Len(created) = 3
    /\ ticks >= 2
    /\ current_process # NULL
    /\ Len(ReadyList) = 2

\* ------------------------------------------------------------ allocator claims

\* C3 as stated: from kernel_init the first NUM_PAGES allocate_page calls all
\* return a non-NULL address and the next one does not; after one free_page of
\* an allocated page that follows, exactly one more call returns a non-NULL
\* address and the call after it does not.
C3_ExhaustionClaim ==
    /\ (freedAt = << >> /\ allocCalls <= NUM_PAGES) => allocOks = allocCalls
    /\ (freedAt = << >> /\ allocCalls > NUM_PAGES) => allocOks = NUM_PAGES
    /\ ( /\ Len(freedAt) = 1
         /\ freedAt[1].at = NUM_PAGES + 1
         /\ freedAt[1].page < NUM_PAGES
         /\ allocCalls >= NUM_PAGES + 2 ) => allocOks = NUM_PAGES + 1

\* C4 as stated: whatever allocate_page and free_page calls the consumers
\* make, no page is held by two consumers at once.
C4_SingleOwnerClaim ==
    \A i \in Pages : Cardinality(holders[i]) <= 1

\* ------------------------------------------------------------ create_process claims

\* C6 as stated: create_process returns NULL and enqueues nothing whenever
\* the PCB-page or the stack-page allocation returns NULL, and a create_process
\* that returned NULL leaves the set of free pages as it was.
C6_RollbackClaim ==
    [][ call'.op = "create_process" =>
          /\ ( \/ AllocRet(page_table) = NULL
               \/ AllocRet(AllocTable(page_table)) = NULL )
               => (ret' = NULL /\ ReadyList' = ReadyList)
          /\ ret' = NULL => FreePages(page_table') = FreePages(page_table)
      ]_vars

\* C7: the pids of the successfully created processes are strictly increasing
\* in creation order (so pairwise distinct, and none is used twice).
C7_PidsIncreasing ==
    \A i, j \in 1 .. Len(created) :
        i < j => created[i].pid < created[j].pid

\* A PCB page was freed and handed to a later process: two creations share
\* the PCB address, after a failed creation and a tick.
C7_Witness ==
    /\ freedAt # << >>
    /\ current_process # NULL
    /\ \E i, j \in 1 .. Len(created) :
          i < j /\ created[i].pcb = created[j].pcb

\* ------------------------------------------------------------ syscall claims

\* The page_table entries a step changes.
ChangedPages == { i \in Pages : page_table'[i] # page_table[i] }

\* The inode_table slots a step changes.
ChangedInodes == { i \in Files : inode_table'[i] # inode_table[i] }

\* C8: handle_syscall with a number other than the three defined ones
\* returns -1 and changes none of page_table, the ready queue, the PCBs,
\* current_process and inode_table.
C8_UnknownSyscall ==
    [][ (call'.op = "handle_syscall" /\ call'.arg \notin DefinedSyscalls) =>
          /\ ret' = -1
          /\ UNCHANGED << page_table, mem, ready_queue, current_process,
                          inode_table, pid_counter >>
      ]_vars

\* An unknown syscall answered with -1 on a kernel with a running process, a
\* queued one and a file.
C8_Witness ==
    /\ call.op = "handle_syscall"
    /\ call.arg \in UnknownSyscalls
    /\ ret = -1
    /\ current_process # NULL
    /\ ready_queue # NULL
    /\ files # << >>

\* What C9 says of SYS_ALLOCATE_PAGE and SYS_CREATE_FILE: one handler call,
\* nothing else touched.
C9_AllocAndFileIsolated ==
    /\ call'.arg = SYS_ALLOCATE_PAGE =>
          /\ Cardinality(ChangedPages) <= 1
          /\ FreePages(page_table) # {} =>
                \E i \in FreePages(page_table) :
                    ChangedPages = {i} /\ page_table'[i].is_free = 0
          /\ UNCHANGED << mem, ready_queue, current_process, inode_table >>
    /\ call'.arg = SYS_CREATE_FILE =>
          /\ Cardinality(ChangedInodes) <= 1
          /\ files' = Append(files, ret')
          /\ UNCHANGED << page_table, mem, ready_queue, current_process >>

\* What C9 says of SYS_CREATE_PROCESS besides the append: current_process,
\* its PCB, inode_table and the fields of the PCBs already queued are kept.
C9_CreateProcessFrame ==
    call'.arg = SYS_CREATE_PROCESS =>
        /\ UNCHANGED << current_process, inode_table >>
        /\ current_process # NULL => mem'[current_process] = mem[current_process]
        /\ \A i \in 1 .. Len(ReadyList) :
              /\ mem'[ReadyList[i]].pid = mem[ReadyList[i]].pid
              /\ mem'[ReadyList[i]].state = mem[ReadyList[i]].state
              /\ mem'[ReadyList[i]].stack_pointer = mem[ReadyList[i]].stack_pointer

\* C9 as stated: every SYS_CREATE_PROCESS appends exactly one PCB.
C9_DispatchClaim ==
    [][ call'.op = "handle_syscall" =>
          /\ C9_AllocAndFileIsolated
          /\ C9_CreateProcessFrame
          /\ call'.arg = SYS_CREATE_PROCESS =>
                \E p \in PageAddrs : ReadyList' = Append(ReadyList, p)
      ]_vars

\* C9 as amended: SYS_CREATE_PROCESS appends exactly the PCB it returns when
\* it returns a non-zero address, and leaves the ready queue as it was when it
\* returns 0.
C9_DispatchIsolation ==
    [][ call'.op = "handle_syscall" =>
          /\ C9_AllocAndFileIsolated
          /\ C9_CreateProcessFrame
          /\ call'.arg = SYS_CREATE_PROCESS =>
                ReadyList' = IF ret' # 0 THEN Append(ReadyList, ret')
                                         ELSE ReadyList
      ]_vars

\* SYS_CREATE_PROCESS has just appended a third PCB behind two queued ones
\* while another process runs and a file exists.
C9_Witness ==
    /\ call.op = "handle_syscall"
    /\ call.arg = SYS_CREATE_PROCESS
    /\ ret # 0
    /\ current_process # NULL
    /\ Len(ReadyList) = 2
    /\ ReadyList[2] = ret
    /\ files # << >>

\* C10 as stated: the first MAX_FILES create_file calls succeed with pairwise
\* distinct inode numbers, and the call after them returns -1.
C10_CapacityClaim ==
    /\ \A i \in 1 .. Len(files) : i <= MAX_FILES => files[i] # -1
    /\ \A i, j \in 1 .. Len(files) :
          (i < j /\ j <= MAX_FILES) => files[i] # files[j]
    /\ Len(files) > MAX_FILES => files[MAX_FILES + 1] = -1

\* ------------------------------------------------------------ interrupt claims

\* The state change of the handler behind defined syscall n, as
\* handle_syscall produces it (the returned value aside).
SyscallStateChange(n) ==
    IF n = SYS_CREATE_PROCESS
    THEN page_table' = IF AllocRet(page_table) = NULL
                       THEN AllocTable(page_table)
                       ELSE AllocTable(AllocTable(page_table))
    ELSE IF n = SYS_ALLOCATE_PAGE
    THEN /\ page_table' = AllocTable(page_table)
         /\ UNCHANGED << mem, ready_queue, current_process, inode_table >>
    ELSE /\ \E t \in 0 .. MaxTime :
               inode_table' = CreateFileTable(inode_table, PERM_0644, t)
         /\ files' = Append(files, CreateFileRet(inode_table))
         /\ UNCHANGED << page_table, mem, ready_queue, current_process >>

\* C11 as stated: interrupt_handler(SYSCALL_INTERRUPT) dispatches the trapped
\* syscall, so its step is the state change of some defined syscall's handler,
\* and interrupt_handler(TIMER_INTERRUPT) has the effect of one schedule().
C11_RoutingClaim ==
    [][ call'.op = "interrupt_handler" =>
          /\ call'.arg = SYSCALL_INTERRUPT =>
                \E n \in DefinedSyscalls : SyscallStateChange(n)
          /\ call'.arg = TIMER_INTERRUPT =>
                (ScheduleBody /\ ticks' = ticks + 1)
      ]_vars

\* A kernel whose boot code runs kernel_init() again while processes exist.
NextInit ==
    \/ \E e \in { 100 } : create_process(e)
    \/ schedule
    \/ kernel_init

SpecInit == Init /\ [][NextInit]_vars

\* The page allocator on its own: any caller, any order, any address.
NextPages ==
    \/ allocate_page
    \/ \E a \in FreeAddrs : free_page(a)
    \/ kernel_init

SpecPages == Init /\ [][NextPages]_vars

\* Consumer c calls free_page on the base address of a page it holds.
ConsumerRelease(c, address) ==
    /\ c \in holders[PageIndex(address)]
    /\ ConsumerFree(c, address)

\* Processes next to well-behaved consumers of the allocator.
NextOwn ==
    \/ \E e \in { 100 } : create_process(e)
    \/ \E c \in Consumers : ConsumerAllocate(c)
    \/ \E c \in Consumers, a \in PageAddrs : ConsumerRelease(c, a)

SpecOwn == Init /\ [][NextOwn]_vars

\* Processes and timer ticks, where a schedule() that has requeued the
\* current process can be interrupted by another tick before line 89.
\* Calls made while no schedule() is suspended are serialized.
NextNested ==
    \/ \E e \in { 100 } : sched_pc = "idle" /\ create_process(e)
    \/ sched_pc = "idle" /\ schedule
    \/ ScheduleSuspend
    \/ NestedSchedule
    \/ ScheduleResume

SpecNested == Init /\ [][NextNested]_vars

\* The serialized scheduler with ticks that keep occurring.
NextTicking ==
    \/ \E e \in EntryPoints : create_process(e)
    \/ tick

SpecTicking == Init /\ [][NextTicking]_vars /\ WF_vars(tick)

\* ------------------------------------------------------------ allocate_page claims

\* C12 as stated: allocate_page returns NULL exactly when no page was free;
\* with a page free it returns the non-NULL base address of the one page it
\* marked allocated; so create_process returns NULL only when no page was free.
C12_UnambiguousClaim ==
    [][ /\ call'.op = "allocate_page" =>
              /\ (ret' = NULL) <=> (FreePages(page_table) = {})
              /\ FreePages(page_table) # {} =>
                    \E i \in Pages : /\ ChangedPages = {i}
                                     /\ page_table'[i].is_free = 0
                                     /\ ret' = i * PAGE_SIZE
                                     /\ ret' # NULL
        /\ (call'.op = "create_process" /\ ~hung' /\ ret' = NULL) =>
              FreePages(page_table) = {}
      ]_vars

\* ------------------------------------------------------------ kernel_init claims

\* The PCBs the scheduler can reach: the running one and the queued ones.
LivePCBs ==
    { p \in PageAddrs \ { NULL } :
        p = current_process \/ \E k \in 1 .. Len(ReadyList) : ReadyList[k] = p }

\* The page index a PCB's stack_pointer is the top of.
StackPage(p) == PageIndex(mem[p].stack_pointer - PAGE_SIZE)

\* C13: kernel_init marks every page free (and numbered by its index)
\* whatever the table held, and changes neither ready_queue nor
\* current_process nor any PCB; so after a kernel_init issued while
\* processes exist, the pages of their PCBs and stacks are marked free.
C13_InitResetsOnlyPages ==
    [][ call'.op = "kernel_init" =>
          /\ \A i \in Pages : /\ page_table'[i].is_free = 1
                              /\ page_table'[i].page_number = i
          /\ UNCHANGED << ready_queue, current_process, mem, inode_table, pid_counter >>
          /\ \A p \in LivePCBs : /\ page_table'[PageIndex(p)].is_free = 1
                                 /\ page_table'[StackPage(p)].is_free = 1
      ]_vars

\* A second kernel_init with a running process and a queued one, whose
\* PCB and stack pages are now marked free.
C13_Witness ==
    /\ call.op = "kernel_init"
    /\ current_process # NULL
    /\ ready_queue # NULL
    /\ ready_queue # current_process
    /\ \A p \in LivePCBs : /\ page_table[PageIndex(p)].is_free = 1
                           /\ page_table[StackPage(p)].is_free = 1
                           /\ StackPage(p) # PageIndex(p)

\* ------------------------------------------------------------ first fit, free_page

\* C14: with a page free, allocate_page marks the lowest-indexed free entry
\* allocated, returns that index times PAGE_SIZE and changes no other entry;
\* with none free it changes nothing and returns NULL.
C14_FirstFit ==
    [][ call'.op = "allocate_page" =>
          IF FreePages(page_table) = {}
          THEN page_table' = page_table /\ ret' = NULL
          ELSE \E i \in FreePages(page_table) :
                  /\ \A j \in FreePages(page_table) : i <= j
                  /\ page_table' = [page_table EXCEPT ![i].is_free = 0]
                  /\ ret' = i * PAGE_SIZE
      ]_vars

\* An allocation that went into a hole: a higher page is still allocated
\* and a page above that one is free.
C14_Witness ==
    /\ call.op = "allocate_page"
    /\ ret # NULL
    /\ page_table[ret \div PAGE_SIZE].is_free = 0
    /\ \E j, k \in Pages : /\ ret \div PAGE_SIZE < j
                           /\ j < k
                           /\ page_table[j].is_free = 0
                           /\ page_table[k].is_free = 1

\* C15: free_page of an address whose page index (address div PAGE_SIZE) is
\* NUM_PAGES or more changes nothing; of an address anywhere inside page i it
\* marks page i free and changes nothing else; a second free_page of the
\* same address changes nothing more.
C15_FreeBoundsIdempotent ==
    [][ call'.op = "free_page" =>
          LET i == call'.arg \div PAGE_SIZE
          IN  /\ i >= NUM_PAGES => page_table' = page_table
              /\ i < NUM_PAGES =>
                    /\ page_table'[i].is_free = 1
                    /\ page_table'[i].page_number = page_table[i].page_number
                    /\ \A j \in Pages \ { i } : page_table'[j] = page_table[j]
              /\ FreeTable(page_table', call'.arg) = page_table'
              /\ UNCHANGED << mem, ready_queue, current_process, inode_table >>
      ]_vars

\* free_page of an unaligned address inside an allocated page, with the page
\* above it still allocated.
C15_Witness ==
    /\ call.op = "free_page"
    /\ call.arg % PAGE_SIZE # 0
    /\ call.arg \div PAGE_SIZE < NUM_PAGES - 1
    /\ page_table[call.arg \div PAGE_SIZE].is_free = 1
    /\ page_table[(call.arg \div PAGE_SIZE) + 1].is_free = 0

\* ------------------------------------------------------------ stack pages

\* C16 as stated: after a successful create_process the new PCB's
\* stack_pointer is base + PAGE_SIZE of a page that is marked allocated, is
\* not the page of the PCB itself, and is neither the PCB page nor the stack
\* page of any other live process.
C16_StackPageClaim ==
    [][ (call'.op = "create_process" /\ ret' # NULL /\ ~hung') =>
          LET sp == mem'[ret'].stack_pointer - PAGE_SIZE
          IN  /\ sp \in PageAddrs
              /\ page_table'[PageIndex(sp)].is_free = 0
              /\ PageIndex(sp) # PageIndex(ret')
              /\ \A q \in LivePCBs' \ { ret' } :
                    /\ PageIndex(sp) # PageIndex(q)
                    /\ PageIndex(sp) # StackPage(q)'
      ]_vars

\* ------------------------------------------------------------ enqueueing

\* C17: a successful create_process leaves the new PCB READY and last in
\* ready_queue, keeps the order of the PCBs queued before it, and changes
\* neither current_process nor the state of any PCB created earlier.
C17_EnqueueAtTail ==
    [][ (call'.op = "create_process" /\ ret' # NULL) =>
          /\ mem'[ret'].state = "READY"
          /\ ReadyList' = Append(ReadyList, ret')
          /\ current_process' = current_process
          /\ \A k \in 1 .. Len(created) :
                mem'[created[k].pcb].state = mem[created[k].pcb].state
      ]_vars

\* A process created while one runs and another waits: it is queued behind
\* the waiting one.
C17_Witness ==
    /\ call.op = "create_process"
    /\ ret # NULL
    /\ current_process # NULL
    /\ mem[current_process].state = "RUNNING"
    /\ Len(ReadyList) = 2
    /\ ReadyList[2] = ret
    /\ mem[ret].state = "READY"

\* ------------------------------------------------------------ nested ticks

\* A created PCB that is neither queued nor the current process.
LostPCB == \E k \in 1 .. Len(created) : Placements(created[k].pcb) = 0

\* Two created PCBs in state RUNNING.
TwoRunning ==
    \E j, k \in 1 .. Len(created) :
        /\ created[j].pcb # created[k].pcb
        /\ mem[created[j].pcb].state = "RUNNING"
        /\ mem[created[k].pcb].state = "RUNNING"

\* C18: between schedule() calls, a lost PCB or two RUNNING PCBs are found
\* only after a schedule() ran inside another one that had requeued the
\* current process and not yet popped the head; with every schedule()
\* running from line 77 to line 92 on its own there is no such state.
C18_SerializedIsSafe ==
    (sched_pc = "idle" /\ ~nested) => (~LostPCB /\ ~TwoRunning)

\* The state the nested tick reaches: the suspended schedule() has returned,
\* one PCB is in neither list and two PCBs are RUNNING.
C18_Witness ==
    /\ sched_pc = "idle"
    /\ nested
    /\ ~hung
    /\ LostPCB
    /\ TwoRunning

\* ------------------------------------------------------------ process states

\* The states of the created PCBs fit their places.
StatesFitPlaces ==
    /\ current_process # NULL => mem[current_process].state = "RUNNING"
    /\ \A k \in 1 .. Len(ReadyList) : mem[ReadyList[k]].state = "READY"
    /\ ~TwoRunning
    /\ \A k \in 1 .. Len(created) :
          mem[created[k].pcb].state \in { "READY", "RUNNING" }

\* C19: with atomic create_process and schedule calls, current_process is
\* null or RUNNING, every queued PCB is READY, at most one PCB is RUNNING,
\* none is BLOCKED or TERMINATED, and a PCB's state only ever changes from
\* READY to RUNNING or from RUNNING to READY, in a schedule() call.
C19_ProcessStates ==
    [][ /\ StatesFitPlaces
        /\ StatesFitPlaces'
        /\ \A k \in 1 .. Len(created) :
              LET old == mem[created[k].pcb].state
                  new == mem'[created[k].pcb].state
              IN  old # new =>
                    /\ call'.op = "schedule"
                    /\ << old, new >> \in { << "READY", "RUNNING" >>,
                                            << "RUNNING", "READY" >> }
      ]_vars

\* A tick that preempts one process and selects another while a third waits.
C19_Witness ==
    /\ call.op = "schedule"
    /\ Len(created) = 3
    /\ ticks >= 2
    /\ current_process # NULL
    /\ mem[current_process].state = "RUNNING"
    /\ Len(ReadyList) = 2
    /\ \A k \in 1 .. 2 : mem[ReadyList[k]].state = "READY"

\* ------------------------------------------------------------ no starvation

\* C20: a schedule() makes the head of ready_queue the current process and
\* moves every other queued PCB one place forward, and a create_process
\* moves no queued PCB, so the k-th PCB of the queue is the current process
\* after exactly k further schedule() calls however many create_process
\* calls come between them; and with ticks that keep occurring every
\* created process is eventually the RUNNING current process.
C20_NoStarvation ==
    /\ [][ /\ call'.op = "schedule" =>
                /\ Len(ReadyList) >= 1 => current_process' = ReadyList[1]
                /\ \A k \in 2 .. Len(ReadyList) :
                      /\ Len(ReadyList') >= k - 1
                      /\ ReadyList'[k - 1] = ReadyList[k]
           /\ call'.op = "create_process" =>
                /\ current_process' = current_process
                /\ \A k \in 1 .. Len(ReadyList) :
                      /\ Len(ReadyList') >= k
                      /\ ReadyList'[k] = ReadyList[k]
         ]_vars
    /\ \A i \in 1 .. MaxPid :
          (Len(created) >= i) ~>
              (/\ Len(created) >= i
               /\ current_process = created[i].pcb
               /\ mem[created[i].pcb].state = "RUNNING")

\* The process created last, after ticks had begun, has got its turn.
C20_Witness ==
    /\ Len(created) = 3
    /\ early
    /\ call.op = "schedule"
    /\ current_process = created[3].pcb
    /\ mem[current_process].state = "RUNNING"
    /\ Len(ReadyList) = 2

====
